---- MODULE Spec2Model ----
(***************************************************************************)
(* PolySetBuilder (src/geometry/PolySetBuilder.cc): the staging object     *)
(* that accumulates vertices, faces, face colours and curve descriptors    *)
(* and freezes them into a PolySet.                                        *)
(*                                                                         *)
(* Indices are 0-based as in the C++ code; the TLA+ sequence position of   *)
(* index i is i + 1.                                                       *)
(***************************************************************************)
EXTENDS Integers, Sequences, FiniteSets

VARIABLES
    vertices_,          \* Reindexer<Vector3d>: distinct points, first-seen order
    indices_,           \* PolygonIndices: the stored faces
    color_indices_,     \* std::vector<int32_t>: per-face palette index or -1
    colors_,            \* std::vector<Color4f>: the palette
    current_polygon_,   \* IndexedFace: the pending face
    curves,             \* std::vector<std::shared_ptr<Curve>>
    surfaces,           \* std::vector<std::shared_ptr<Surface>>
    polyset,            \* the PolySet returned by build()
    ret,                \* the value the last vertexIndex() call returned
    input,              \* the caller's script: the calls it is going to make
    pc,                 \* how many calls of the script have been made
    anyColored,         \* history: a face has been stored together with a colour
    log,                \* the messages handed to LOG(message_group::Error, ...)
    aborted,            \* an assert has failed: the process is gone
    ndebug,             \* the build defines NDEBUG: assert() expands to nothing
    path_initialized,   \* PlatformUtils.cc, anonymous namespace
    applicationpath,    \* PlatformUtils.cc, anonymous namespace
    resourcespath,      \* PlatformUtils.cc, anonymous namespace
    thrown,             \* the last PlatformUtils call left by an exception
    result,             \* the string the last PlatformUtils call returned
    registered          \* history: the argument of the last registerApplicationPath
                        \* call that returned

builderVars == <<vertices_, indices_, color_indices_, colors_, current_polygon_>>
dispatchVars == <<log, aborted, ndebug>>
platformVars ==
    <<path_initialized, applicationpath, resourcespath, thrown, result, registered>>

vars == <<vertices_, indices_, color_indices_, colors_, current_polygon_,
          curves, surfaces, polyset, ret, input, pc, anyColored,
          log, aborted, ndebug,
          path_initialized, applicationpath, resourcespath, thrown, result, registered>>

-----------------------------------------------------------------------------
(* Bounds and input domains *)

MaxFaces == 1          \* stored faces the free-running model lets the builder hold
MaxPending == 3        \* entries the free-running model lets the pending face hold
MaxListLen == 4        \* longest index list a scripted caller hands over
MaxLookups == 4        \* longest run of point lookups a scripted caller makes
MaxCurves == 3         \* longest run of addCurve calls a scripted caller makes
MaxItems == 3          \* most groups of calls a colouring caller makes before build()
MaxChildren == 2       \* most children of a flat GeometryList handed to appendGeometry
MaxDescriptors == 3    \* longest run of addCurve / addSurface calls a scripted caller makes
MaxPathCalls == 3      \* longest run of PlatformUtils calls a scripted caller makes

Points == {"p1", "p2", "p3", "p4", "p5"}
Colors == {"Red", "Blue"}
NoColor == "none"      \* a default-constructed Color4f, for which isValid() is false
IndexArgs == {0, 1, 2}

-----------------------------------------------------------------------------
(* Helpers *)

Last(s) == s[Len(s)]
Range(s) == {s[i] : i \in 1 .. Len(s)}
Fill(n, x) == [i \in 1 .. n |-> x]
\* std::find(begin, end, x) - begin : position of the first element equal to
\* x, or the size when there is none
Find(s, x) ==
    IF \E i \in 1 .. Len(s) : s[i] = x
    THEN (CHOOSE i \in 1 .. Len(s) : s[i] = x /\ \A j \in 1 .. (i - 1) : s[j] # x) - 1
    ELSE Len(s)
\* std::vector::resize(n, x) on a vector that is not longer than n
Resize(s, n, x) == IF Len(s) >= n THEN SubSeq(s, 1, n) ELSE s \o Fill(n - Len(s), x)

isValid(color) == color # NoColor

-----------------------------------------------------------------------------
(* The builder as a value, and the operations as functions on it *)

Self == [vertices_ |-> vertices_, indices_ |-> indices_,
         color_indices_ |-> color_indices_, colors_ |-> colors_,
         current_polygon_ |-> current_polygon_]

Store(b) ==
    /\ vertices_' = b.vertices_
    /\ indices_' = b.indices_
    /\ color_indices_' = b.color_indices_
    /\ colors_' = b.colors_
    /\ current_polygon_' = b.current_polygon_

Empty == [vertices_ |-> <<>>, indices_ |-> <<>>, color_indices_ |-> <<>>,
          colors_ |-> <<>>, current_polygon_ |-> <<>>]

\* Reindexer<Vector3d>::lookup
lookup(verts, pt) ==
    IF pt \in Range(verts)
    THEN [index |-> Find(verts, pt), vertices |-> verts]
    ELSE [index |-> Len(verts), vertices |-> Append(verts, pt)]

\* mutant: every lookup allocates a new index
vertexIndexNoDedup(b, pt) ==
    [index |-> Len(b.vertices_), b |-> [b EXCEPT !.vertices_ = Append(@, pt)]]

vertexIndex(b, pt) ==
    LET r == lookup(b.vertices_, pt)
    IN  [index |-> r.index, b |-> [b EXCEPT !.vertices_ = r.vertices]]

\* mutant: only the last entry is compared
addVertexIntNoWrap(b, ind) ==
    IF b.current_polygon_ = <<>> \/ ind # Last(b.current_polygon_)
    THEN [b EXCEPT !.current_polygon_ = Append(@, ind)]
    ELSE b

\* mutant: only the first entry is compared
addVertexIntNoBack(b, ind) ==
    IF b.current_polygon_ = <<>> \/ ind # Head(b.current_polygon_)
    THEN [b EXCEPT !.current_polygon_ = Append(@, ind)]
    ELSE b

addVertexInt(b, ind) ==
    IF b.current_polygon_ = <<>>
       \/ (ind # Last(b.current_polygon_) /\ ind # Head(b.current_polygon_))
    THEN [b EXCEPT !.current_polygon_ = Append(@, ind)]
    ELSE b

\* mutant: the point gets the next index without being recorded
addVertexPtNoLookup(b, v) == addVertexInt(b, Len(b.vertices_))

addVertexPt(b, v) ==
    LET r == vertexIndex(b, v) IN addVertexInt(r.b, r.index)

\* lines 156-171: the body of endPolygon, committed being the outcome of the
\* size test of line 155
commitPolygon(b, color, committed) ==
    LET inds == Append(b.indices_, b.current_polygon_)
        ci0 == IF b.color_indices_ = <<>> /\ Len(inds) > 1
               THEN Resize(b.color_indices_, Len(inds) - 1, -1)
               ELSE b.color_indices_
        it == Find(b.colors_, color)
    IN  IF ~committed THEN [b EXCEPT !.current_polygon_ = <<>>]
        ELSE IF ~isValid(color)
        THEN [b EXCEPT !.indices_ = inds, !.current_polygon_ = <<>>]
        ELSE IF it = Len(b.colors_)
        THEN [b EXCEPT !.indices_ = inds,
                       !.color_indices_ = Append(ci0, Len(b.colors_)),
                       !.colors_ = Append(@, color),
                       !.current_polygon_ = <<>>]
        ELSE [b EXCEPT !.indices_ = inds,
                       !.color_indices_ = Append(ci0, it),
                       !.current_polygon_ = <<>>]

\* mutant: a pending face of two entries is stored
endPolygonMin2(b, color) == commitPolygon(b, color, Len(b.current_polygon_) >= 2)

endPolygon(b, color) == commitPolygon(b, color, Len(b.current_polygon_) >= 3)

\* mutant: the pending face is discarded whatever its size
beginPolygonDiscard(b) == [b EXCEPT !.current_polygon_ = <<>>]

beginPolygon(b) == endPolygon(b, NoColor)

RECURSIVE addVerticesInt(_, _)
addVerticesInt(b, inds) ==
    IF inds = <<>> THEN b
    ELSE addVerticesInt(addVertexInt(b, Head(inds)), Tail(inds))

RECURSIVE addVerticesPt(_, _)
addVerticesPt(b, pts) ==
    IF pts = <<>> THEN b
    ELSE addVerticesPt(addVertexPt(b, Head(pts)), Tail(pts))

appendPolygonInt(b, inds) ==
    endPolygon(addVerticesInt(beginPolygon(b), inds), NoColor)

appendPolygonPts(b, polygon) ==
    endPolygon(addVerticesPt(beginPolygon(b), polygon), NoColor)

\* the palette loop of appendPolySet (lines 184-196): the builder's palette
\* and the color_map after the source colours from position i on are handled
\* mutant: a colour the palette does not hold is mapped without being added
RECURSIVE buildColorMapNoPush(_, _, _, _)
buildColorMapNoPush(cols, map, src, i) ==
    IF i > Len(src) THEN [colors |-> cols, color_map |-> map]
    ELSE buildColorMapNoPush(cols, Append(map, Find(cols, src[i])), src, i + 1)

RECURSIVE buildColorMap(_, _, _, _)
buildColorMap(cols, map, src, i) ==
    IF i > Len(src) THEN [colors |-> cols, color_map |-> map]
    ELSE LET it == Find(cols, src[i])
         IN  IF it = Len(cols)
             THEN buildColorMap(Append(cols, src[i]), Append(map, Len(cols)), src, i + 1)
             ELSE buildColorMap(cols, Append(map, it), src, i + 1)

\* mutant: the source's index is copied without translation
translateIdentity(color_map, color_index) == color_index

\* line 198: color_index < 0 ? -1 : color_map[color_index]. The int -1 is
\* converted to uint32_t by the conditional and back to int32_t by the
\* push_back, which gives -1 again; the palette positions are far below 2^31.
translate(color_map, color_index) ==
    IF color_index < 0 THEN -1 ELSE color_map[color_index + 1]

\* mutant: the source's vertex indices are added without resolving their points
RECURSIVE appendFacesRaw(_, _, _)
appendFacesRaw(b, ps, k) ==
    IF k > Len(ps.indices) THEN b
    ELSE appendFacesRaw(endPolygon(addVerticesInt(beginPolygon(b), ps.indices[k]),
                                   NoColor),
                        ps, k + 1)

\* the face loop of appendPolySet (lines 206-212), from source face k on
RECURSIVE appendFaces(_, _, _)
appendFaces(b, ps, k) ==
    IF k > Len(ps.indices) THEN b
    ELSE LET poly == ps.indices[k]
             pts == [j \in 1 .. Len(poly) |-> ps.vertices[poly[j] + 1]]
         IN  appendFaces(endPolygon(addVerticesPt(beginPolygon(b), pts), NoColor),
                         ps, k + 1)

appendPolySet(b, ps) ==
    LET ci0 == IF b.color_indices_ = <<>> /\ b.indices_ # <<>>
               THEN Resize(b.color_indices_, Len(b.indices_), -1)
               ELSE b.color_indices_
        m == buildColorMap(b.colors_, <<>>, ps.colors, 1)
        b1 == IF ps.color_indices # <<>>
              THEN [b EXCEPT !.colors_ = m.colors,
                             !.color_indices_ =
                                 ci0 \o [j \in 1 .. Len(ps.color_indices) |->
                                            translate(m.color_map, ps.color_indices[j])]]
              ELSE IF b.color_indices_ # <<>>
              THEN [b EXCEPT !.color_indices_ =
                                 Resize(@, Len(@) + Len(ps.indices), -1)]
              ELSE b
    IN  appendFaces(b1, ps, 1)

addColor(b, color) == [b EXCEPT !.colors_ = Append(@, color)]

\* the PolySet build() returns; built is FALSE while build() has not run
NoPolySet == [built |-> FALSE, vertices |-> <<>>, indices |-> <<>>,
              color_indices |-> <<>>, colors |-> <<>>, curves |-> <<>>,
              surfaces |-> <<>>, triangular |-> FALSE]

\* mutant: only the first face is looked at
isTriangularFirstOnly(faces) == faces = <<>> \/ ~(Len(faces[1]) > 3)

\* lines 274-281 of build()
isTriangular(faces) == ~ \E k \in 1 .. Len(faces) : Len(faces[k]) > 3

buildPolySet(b, cs, ss) ==
    LET b1 == endPolygon(b, NoColor)
    IN  [built |-> TRUE, vertices |-> b1.vertices_, indices |-> b1.indices_,
         color_indices |-> b1.color_indices_, colors |-> b1.colors_,
         curves |-> cs, surfaces |-> ss, triangular |-> isTriangular(b1.indices_)]

-----------------------------------------------------------------------------
(* appendGeometry, in a build with ENABLE_CGAL and ENABLE_MANIFOLD: the       *)
(* classes CGALNefGeometry and ManifoldGeometry exist in such a build only.   *)
(* A geometry is a record of its dynamic type (kind), its children            *)
(* (GeometryList) and its mesh (ps): the PolySet itself, or what the          *)
(* converter returns for it, NoMesh being the null pointer.                   *)
(* The dispatcher works on st = the builder b, the log, whether an assert has *)
(* failed, and whether a face has been stored with a colour.                  *)

NoMesh == [vertices |-> <<>>, indices |-> <<>>, colors |-> <<>>, color_indices |-> <<>>,
           null |-> TRUE]
Geom(kind, ps, children) == [kind |-> kind, ps |-> ps, children |-> children]

\* source face k is stored by a merge: it keeps three entries or more when its
\* points are resolved (equal indices are equal points)
Kept(ps, k) ==
    LET poly == ps.indices[k]
        pts == [j \in 1 .. Len(poly) |-> ps.vertices[poly[j] + 1]]
    IN  Len(addVerticesPt(Empty, pts).current_polygon_) >= 3

StoresColored(ps) ==
    \E k \in 1 .. Len(ps.indices) :
        /\ k <= Len(ps.color_indices)
        /\ ps.color_indices[k] >= 0
        /\ Kept(ps, k)

\* lines 98, 101, 109: appendPolySet(*ps)
mergeInto(st, ps) ==
    [st EXCEPT !.b = appendPolySet(@, ps),
               !.colored = @ \/ StoresColored(ps)]

\* lines 112, 114: assert(false && "...") ends the process, unless the build
\* defines NDEBUG and the assert expands to nothing
assertFalse(st, nd) == IF nd THEN st ELSE [st EXCEPT !.aborted = TRUE]

\* mutant: a failed conversion is treated as an unsupported geometry
appendNefFatal(st, geom, nd) ==
    IF geom.ps = NoMesh THEN assertFalse(st, nd) ELSE mergeInto(st, geom.ps)

\* lines 99-105
appendNef(st, geom, nd) ==
    IF geom.ps = NoMesh
    THEN [st EXCEPT !.log = Append(@, "Nef->PolySet failed")]
    ELSE mergeInto(st, geom.ps)

RECURSIVE appendGeometry(_, _, _)
RECURSIVE appendChildren(_, _, _, _)

\* lines 93-95: the loop over getChildren(), from child i on; nothing runs
\* after an assert has ended the process
appendChildren(st, children, i, nd) ==
    IF i > Len(children) \/ st.aborted THEN st
    ELSE appendChildren(appendGeometry(st, children[i], nd), children, i + 1, nd)

appendGeometry(st, geom, nd) ==
    CASE geom.kind = "GeometryList" -> appendChildren(st, geom.children, 1, nd)
      [] geom.kind = "PolySet" -> mergeInto(st, geom.ps)
      [] geom.kind = "CGALNefGeometry" -> appendNef(st, geom, nd)
      [] geom.kind = "ManifoldGeometry" -> mergeInto(st, geom.ps)
      [] geom.kind = "Polygon2d" -> assertFalse(st, nd)
      [] OTHER -> assertFalse(st, nd)

-----------------------------------------------------------------------------
(* Curves *)

\* Curve::reverse exchanges the endpoints
reverse(c) == [c EXCEPT !.start = c.end, !.end = c.start]
\* Curve::operator== and ArcCurve::operator==
CurveEq(a, b) == a.start = b.start /\ a.end = b.end
ArcCurveEq(a, b) == CurveEq(a, b) /\ a.r = b.r

\* lines 232-243: the two scans of addCurve and the push_back
scanCurves(cs, c) ==
    IF c.kind = "arc"
       /\ \E i \in 1 .. Len(cs) : cs[i].kind = "arc" /\ ArcCurveEq(cs[i], c)
    THEN cs
    ELSE IF \E i \in 1 .. Len(cs) : CurveEq(cs[i], c)
    THEN cs
    ELSE Append(cs, c)

\* mutant: the curve is not brought into its canonical orientation
addCurveNoReverse(cs, new_curve) == scanCurves(cs, new_curve)

addCurve(cs, new_curve) ==
    scanCurves(cs, IF new_curve.start > new_curve.end THEN reverse(new_curve)
                   ELSE new_curve)

\* Surface::operator== compares what every surface has (base), and
\* CylinderSurface::operator== the cylinder's radius as well
SurfaceEq(a, b) == a.base = b.base
CylinderSurfaceEq(a, b) == SurfaceEq(a, b) /\ a.r = b.r

\* lines 247-258: the two scans of addSurface and the push_back
addSurface(ss, new_surface) ==
    IF new_surface.kind = "cylinder"
       /\ \E i \in 1 .. Len(ss) : ss[i].kind = "cylinder" /\ CylinderSurfaceEq(ss[i], new_surface)
    THEN ss
    ELSE IF \E i \in 1 .. Len(ss) : SurfaceEq(ss[i], new_surface)
    THEN ss
    ELSE Append(ss, new_surface)

-----------------------------------------------------------------------------
(* PlatformUtils: the application path and the resources path *)

\* what lookupResourcesPath() (lines 314-371) comes to depends on the file
\* system: the canonical path of the resource folder it finds, or the
\* filesystem_error fs::canonical throws for a folder that does not exist
FilesystemError == "filesystem_error"
ResourceDirs == {"/opt/a/share", "/opt/b"}
LookupOutcomes == ResourceDirs \cup {FilesystemError}
ApplicationPaths == {"/opt/a/bin", "/opt/b/bin", "/gone"}

\* the statics of the anonymous namespace as a value
Statics == [path_initialized |-> path_initialized, applicationpath |-> applicationpath,
            resourcespath |-> resourcespath]

\* lines 373-378; found is what lookupResourcesPath() comes to. An exception
\* leaves the function after line 375 has assigned the application path.
registerApplicationPath(st, apppath, found) ==
    LET st1 == [st EXCEPT !.applicationpath = apppath]
    IN  IF found = FilesystemError
        THEN [st |-> st1, thrown |-> TRUE]
        ELSE [st |-> [st1 EXCEPT !.resourcespath = found, !.path_initialized = TRUE],
              thrown |-> FALSE]

\* lines 380-386
applicationPath(st) ==
    IF ~st.path_initialized THEN [thrown |-> TRUE, value |-> ""]
    ELSE [thrown |-> FALSE, value |-> st.applicationpath]

\* lines 478-484
resourceBasePath(st) ==
    IF ~st.path_initialized THEN [thrown |-> TRUE, value |-> ""]
    ELSE [thrown |-> FALSE, value |-> st.resourcespath]

-----------------------------------------------------------------------------
(* Inputs *)

ColorArgs == Colors \cup {NoColor}

\* index lists handed to the builder one addVertex(int) at a time
IndexLists == UNION {[1 .. n -> IndexArgs] : n \in 0 .. MaxListLen}

\* what a scripted caller has added before it calls beginPolygon: nothing, or
\* the beginning of a quadrilateral
PendingLists == {SubSeq(<<0, 1, 2, 1>>, 1, n) : n \in 0 .. 4}

\* point lists looked up one vertexIndex() at a time
LookupLists == UNION {[1 .. n -> Points] : n \in 1 .. MaxLookups}

Triangle == <<<<0, 1, 2>>>>
TwoTriangles == <<<<0, 1, 2>>, <<2, 1, 0>>>>
Mesh(v, f, cs, ci) ==
    [vertices |-> v, indices |-> f, colors |-> cs, color_indices |-> ci, null |-> FALSE]

SourcePalettes == {<<>>} \cup {<<c>> : c \in Colors}
                         \cup {<<c, d>> : c \in Colors, d \in Colors}
\* a source's colour indices are -1 or positions of its own palette
SourceColorIndices(n, cs) == [1 .. n -> -1 .. (Len(cs) - 1)]

\* sources of the free-running model: one triangle, whose first two points
\* may coincide, without face colours or with a colour for its face
FreeMeshes ==
    {Mesh(v, Triangle, <<>>, <<>>) : v \in {<<"p1", "p2", "p3">>, <<"p1", "p1", "p2">>}}
    \cup {Mesh(v, Triangle, cs, <<k>>) :
            v \in {<<"p1", "p2", "p3">>, <<"p1", "p1", "p2">>},
            cs \in {<<"Red">>, <<"Blue", "Red">>}, k \in {0}}

\* uncoloured one-triangle sources over any three points
GeometryMeshes == {Mesh(v, Triangle, <<>>, <<>>) : v \in [1 .. 3 -> Points]}
\* one- and two-triangle sources over fixed points with every colouring
ColoredMeshes ==
    UNION {{Mesh(<<"p1", "p2", "p3">>, f, cs, ci) : ci \in SourceColorIndices(Len(f), cs)} :
             f \in {Triangle, TwoTriangles}, cs \in SourcePalettes}
    \cup {Mesh(<<"p1", "p2", "p3">>, Triangle, <<>>, <<>>)}

NoFaces == Mesh(<<>>, <<>>, <<>>, <<>>)

\* curves handed to addCurve: plain curves and arcs between the vertices 2 and 5
CurveArgs ==
    {[kind |-> "curve", start |-> a, end |-> b, r |-> 0] : a \in {2, 5}, b \in {2, 5}}
    \cup {[kind |-> "arc", start |-> a, end |-> b, r |-> r] :
            a \in {2, 5}, b \in {2, 5}, r \in {1, 2}}
CurveLists == UNION {[1 .. n -> CurveArgs] : n \in 1 .. MaxCurves}

Call(op, arg) == [op |-> op, arg |-> arg]
RECURSIVE Adds(_)
Adds(inds) == IF inds = <<>> THEN <<>>
              ELSE <<Call("addVertex", Head(inds))>> \o Adds(Tail(inds))

\* a caller that merges a source (possibly one without faces), leaves
\* something pending, then builds one face and finishes
FaceScript(m, pre, inds, c) ==
    <<Call("appendPolySet", m)>> \o Adds(pre) \o <<Call("beginPolygon", 0)>>
        \o Adds(inds) \o <<Call("endPolygon", c), Call("build", 0)>>

\* a caller that only registers curves
CurveScript(l) == [i \in 1 .. Len(l) |-> Call("addCurve", l[i])]

\* a caller that merges two sources, or appends two polygons given by their
\* points, and finishes
MergeScript(a, b) ==
    <<Call("appendPolySet", a), Call("appendPolySet", b), Call("build", 0)>>
PolygonScript(a, b) ==
    <<Call("appendPolygon", a), Call("appendPolygon", b), Call("build", 0)>>

\* a caller that only looks points up
LookupScript(l) == [i \in 1 .. Len(l) |-> Call("vertexIndex", l[i])]

\* sources of a colouring caller: two faces of which the first collapses when
\* its points are resolved, and proper sources with and without face colours
CollapsingMesh ==
    Mesh(<<"p1", "p1", "p2", "p3">>, <<<<0, 1, 2>>, <<0, 2, 3>>>>, <<"Red", "Blue">>, <<0, 1>>)
ItemMeshes ==
    {CollapsingMesh,
     Mesh(<<"p1", "p2", "p3">>, Triangle, <<"Blue">>, <<0>>),
     Mesh(<<"p1", "p2", "p3">>, TwoTriangles, <<"Red">>, <<-1, 0>>),
     Mesh(<<"p1", "p2", "p3">>, Triangle, <<>>, <<>>)}

\* the groups of calls a colouring caller makes: a colour for the palette, a
\* whole triangle with or without a colour, indices left pending, a merge
FaceItem(c) ==
    <<Call("beginPolygon", 0)>> \o Adds(<<0, 1, 2>>) \o <<Call("endPolygon", c)>>
Items ==
    {<<Call("addColor", c)>> : c \in Colors}
    \cup {FaceItem(c) : c \in ColorArgs}
    \cup {Adds(<<2, 1, 0>>), Adds(<<2, 1>>)}
    \cup {<<Call("appendPolySet", m)>> : m \in ItemMeshes}

\* descriptors handed to the registries: plain curves and arcs, plain
\* surfaces and cylinders
CurveItems ==
    {[kind |-> "curve", start |-> 2, end |-> 5, r |-> 0],
     [kind |-> "curve", start |-> 5, end |-> 2, r |-> 0],
     [kind |-> "curve", start |-> 2, end |-> 7, r |-> 0],
     [kind |-> "arc", start |-> 2, end |-> 5, r |-> 1],
     [kind |-> "arc", start |-> 5, end |-> 2, r |-> 1],
     [kind |-> "arc", start |-> 2, end |-> 5, r |-> 2]}
SurfaceItems ==
    {[kind |-> "surface", base |-> 1, r |-> 0],
     [kind |-> "surface", base |-> 2, r |-> 0],
     [kind |-> "cylinder", base |-> 1, r |-> 1],
     [kind |-> "cylinder", base |-> 1, r |-> 2],
     [kind |-> "cylinder", base |-> 2, r |-> 1]}
DescriptorCalls ==
    {Call("addCurve", c) : c \in CurveItems} \cup {Call("addSurface", f) : f \in SurfaceItems}

\* geometries handed to appendGeometry: every kind on its own, flat lists of
\* them, and lists that hold a list
DispatchMeshes ==
    {Mesh(<<"p1", "p2", "p3">>, Triangle, <<>>, <<>>),
     Mesh(<<"p3", "p4", "p5">>, Triangle, <<"Red">>, <<0>>)}
FailedNef == Geom("CGALNefGeometry", NoMesh, <<>>)
Leaves ==
    {Geom(kind, m, <<>>) :
        kind \in {"PolySet", "CGALNefGeometry", "ManifoldGeometry"}, m \in DispatchMeshes}
    \cup {FailedNef, Geom("Polygon2d", NoMesh, <<>>), Geom("Text", NoMesh, <<>>)}
GList(children) == Geom("GeometryList", NoMesh, children)
InnerLeaves ==
    {FailedNef, Geom("Polygon2d", NoMesh, <<>>),
     Geom("PolySet", Mesh(<<"p3", "p4", "p5">>, Triangle, <<"Red">>, <<0>>), <<>>)}
InnerLists == {GList(c) : c \in [1 .. 2 -> InnerLeaves]}
Geometries ==
    Leaves
    \cup UNION {{GList(c) : c \in [1 .. n -> Leaves]} : n \in 0 .. MaxChildren}
    \cup {GList(<<l, g>>) : l \in Leaves, g \in InnerLists}
    \cup {GList(<<g, l>>) : l \in Leaves, g \in InnerLists}

\* a caller that merges a source (possibly one without faces), leaves
\* something pending, hands a geometry over and finishes
GeometryScript(m, pre, geom) ==
    <<Call("appendPolySet", m)>> \o Adds(pre)
        \o <<Call("appendGeometry", geom), Call("build", 0)>>

RECURSIVE Flatten(_)
Flatten(items) == IF items = <<>> THEN <<>> ELSE Head(items) \o Flatten(Tail(items))
ColorScript(items) == Flatten(items) \o <<Call("build", 0)>>

-----------------------------------------------------------------------------
(* The builder's operations as actions *)

\* a fresh builder in a fresh process, in a build with (nd) or without NDEBUG
InitIn(script, nd) ==
    /\ vertices_ = <<>>
    /\ indices_ = <<>>
    /\ color_indices_ = <<>>
    /\ colors_ = <<>>
    /\ current_polygon_ = <<>>
    /\ curves = <<>>
    /\ surfaces = <<>>
    /\ polyset = NoPolySet
    /\ ret = -1
    /\ input = script
    /\ pc = 0
    /\ anyColored = FALSE
    /\ log = <<>>
    /\ aborted = FALSE
    /\ ndebug = nd
    /\ path_initialized = FALSE
    /\ applicationpath = ""
    /\ resourcespath = ""
    /\ thrown = FALSE
    /\ result = ""
    /\ registered = ""

InitWith(script) == InitIn(script, FALSE)

Init == InitWith(<<>>)

\* a call on the builder can be made: build() has not consumed it and no
\* assert has ended the process
Usable == ~polyset.built /\ ~aborted

\* the builder goes from Self to b; colored: the step stored a face with a colour
Do(b, colored) ==
    /\ Usable
    /\ Store(b)
    /\ anyColored' = (anyColored \/ colored)
    /\ UNCHANGED <<curves, surfaces, polyset, ret, dispatchVars, platformVars>>

AddVertexIndex(ind) == Do(addVertexInt(Self, ind), FALSE)
AddVertexPoint(v) == Do(addVertexPt(Self, v), FALSE)
BeginPolygon == Do(beginPolygon(Self), FALSE)
EndPolygon(color) ==
    Do(endPolygon(Self, color), Len(current_polygon_) >= 3 /\ isValid(color))
AppendPolygonIndices(inds) == Do(appendPolygonInt(Self, inds), FALSE)
AppendPolygonPoints(polygon) == Do(appendPolygonPts(Self, polygon), FALSE)
AppendPolySet(ps) == Do(appendPolySet(Self, ps), StoresColored(ps))
AddColor(color) == Do(addColor(Self, color), FALSE)

AddSurface(new_surface) ==
    /\ Usable
    /\ surfaces' = addSurface(surfaces, new_surface)
    /\ UNCHANGED <<builderVars, curves, polyset, ret, anyColored,
                   dispatchVars, platformVars>>

builderState == <<builderVars, curves, surfaces, polyset, anyColored, dispatchVars>>

RegisterApplicationPath(apppath, found) ==
    LET r == registerApplicationPath(Statics, apppath, found)
    IN  /\ ~aborted
        /\ path_initialized' = r.st.path_initialized
        /\ applicationpath' = r.st.applicationpath
        /\ resourcespath' = r.st.resourcespath
        /\ thrown' = r.thrown
        /\ registered' = IF r.thrown THEN registered ELSE apppath
        /\ UNCHANGED <<result, ret, builderState>>

\* a call that returns a string, or throws and returns nothing
Returns(r) ==
    /\ ~aborted
    /\ thrown' = r.thrown
    /\ result' = r.value
    /\ UNCHANGED <<path_initialized, applicationpath, resourcespath, registered,
                   ret, builderState>>

ApplicationPath == Returns(applicationPath(Statics))
ResourceBasePath == Returns(resourceBasePath(Statics))

AppendGeometry(geom) ==
    LET st == appendGeometry([b |-> Self, log |-> log, aborted |-> FALSE,
                              colored |-> FALSE], geom, ndebug)
    IN  /\ Usable
        /\ Store(st.b)
        /\ log' = st.log
        /\ aborted' = st.aborted
        /\ anyColored' = (anyColored \/ st.colored)
        /\ UNCHANGED <<curves, surfaces, polyset, ret, ndebug, platformVars>>

VertexIndex(pt) ==
    LET r == vertexIndex(Self, pt)
    IN  /\ Usable
        /\ Store(r.b)
        /\ ret' = r.index
        /\ UNCHANGED <<curves, surfaces, polyset, anyColored, dispatchVars, platformVars>>

AddCurve(new_curve) ==
    /\ Usable
    /\ curves' = addCurve(curves, new_curve)
    /\ UNCHANGED <<builderVars, surfaces, polyset, ret, anyColored,
                   dispatchVars, platformVars>>

\* build() moves the containers into the PolySet: the builder keeps its
\* points, and its moved-from vectors are empty. The builder is consumed by
\* build(): no operation is modelled on a builder that has been built.
Build ==
    /\ Usable
    /\ polyset' = buildPolySet(Self, curves, surfaces)
    /\ vertices_' = vertices_
    /\ indices_' = <<>>
    /\ color_indices_' = <<>>
    /\ colors_' = <<>>
    /\ current_polygon_' = <<>>
    /\ curves' = <<>>
    /\ surfaces' = <<>>
    /\ UNCHANGED <<ret, anyColored, dispatchVars, platformVars>>

-----------------------------------------------------------------------------
(* The free-running builder: any caller, small arguments *)

\* the model's caps on the containers that grow without bound
Within ==
    /\ Len(indices_) <= MaxFaces
    /\ Len(current_polygon_) <= MaxPending
    /\ Len(color_indices_) <= MaxFaces + 1

Free == Within' /\ UNCHANGED <<input, pc>>

Next ==
    \/ \E ind \in IndexArgs : AddVertexIndex(ind) /\ Free
    \/ BeginPolygon /\ Free
    \/ \E color \in ColorArgs : EndPolygon(color) /\ Free
    \/ \E ps \in FreeMeshes : AppendPolySet(ps) /\ Free
    \/ Build /\ Free

Spec == Init /\ [][Next]_vars

\* the free-running builder of a caller that hands over points only
PointArgs == {"p1", "p2", "p3"}
PointMeshes == {Mesh(v, Triangle, <<>>, <<>>) : v \in [1 .. 3 -> PointArgs]}
PointGeometries ==
    {Geom("PolySet", Mesh(<<"p3", "p2", "p1">>, Triangle, <<>>, <<>>), <<>>),
     GList(<<FailedNef,
             Geom("ManifoldGeometry", Mesh(<<"p2", "p2", "p3", "p1">>,
                                           <<<<0, 1, 2>>, <<1, 2, 3>>>>, <<>>, <<>>), <<>>)>>),
     Geom("CGALNefGeometry", Mesh(<<"p1", "p3", "p2">>, Triangle, <<>>, <<>>), <<>>)}

NextPoints ==
    \/ \E v \in PointArgs : AddVertexPoint(v) /\ Free
    \/ BeginPolygon /\ Free
    \/ EndPolygon(NoColor) /\ Free
    \/ \E polygon \in [1 .. 3 -> PointArgs] \cup {<<"p1", "p2", "p3", "p2">>} :
            AppendPolygonPoints(polygon) /\ Free
    \/ \E ps \in PointMeshes : AppendPolySet(ps) /\ Free
    \/ \E geom \in PointGeometries : AppendGeometry(geom) /\ Free
    \/ Build /\ Free

SpecPoints == Init /\ [][NextPoints]_vars

-----------------------------------------------------------------------------
(* Scripted callers: Init draws the script, the caller makes its calls in order *)

Cur == input[pc + 1]
Calls(op) == pc < Len(input) /\ Cur.op = op
Advance == pc' = pc + 1 /\ UNCHANGED input

RunAddVertex == Calls("addVertex") /\ AddVertexIndex(Cur.arg) /\ Advance
RunBeginPolygon == Calls("beginPolygon") /\ BeginPolygon /\ Advance
RunEndPolygon == Calls("endPolygon") /\ EndPolygon(Cur.arg) /\ Advance
RunAppendPolygon == Calls("appendPolygon") /\ AppendPolygonPoints(Cur.arg) /\ Advance
RunAppendPolySet == Calls("appendPolySet") /\ AppendPolySet(Cur.arg) /\ Advance
RunVertexIndex == Calls("vertexIndex") /\ VertexIndex(Cur.arg) /\ Advance
RunAddCurve == Calls("addCurve") /\ AddCurve(Cur.arg) /\ Advance
RunBuild == Calls("build") /\ Build /\ Advance

InitFace ==
    \E m \in FreeMeshes \cup {NoFaces}, pre \in PendingLists,
       inds \in IndexLists, c \in ColorArgs :
        InitWith(FaceScript(m, pre, inds, c))
NextFace ==
    RunAppendPolySet \/ RunAddVertex \/ RunBeginPolygon \/ RunEndPolygon \/ RunBuild
SpecFace == InitFace /\ [][NextFace]_vars

InitMerge ==
    \/ \E a \in GeometryMeshes, b \in GeometryMeshes : InitWith(MergeScript(a, b))
    \/ \E a \in ColoredMeshes, b \in ColoredMeshes : InitWith(MergeScript(a, b))
    \/ \E a \in [1 .. 3 -> Points], b \in [1 .. 3 -> Points] :
            InitWith(PolygonScript(a, b))
NextMerge == RunAppendPolySet \/ RunAppendPolygon \/ RunBuild
SpecMerge == InitMerge /\ [][NextMerge]_vars

InitLookup == \E l \in LookupLists : InitWith(LookupScript(l))
NextLookup == RunVertexIndex
SpecLookup == InitLookup /\ [][NextLookup]_vars

InitCurve == \E l \in CurveLists : InitWith(CurveScript(l))
NextCurve == RunAddCurve
SpecCurve == InitCurve /\ [][NextCurve]_vars

RunAddColor == Calls("addColor") /\ AddColor(Cur.arg) /\ Advance
RunAppendGeometry == Calls("appendGeometry") /\ AppendGeometry(Cur.arg) /\ Advance

InitColor ==
    \E n \in 0 .. MaxItems : \E items \in [1 .. n -> Items] :
        InitWith(ColorScript(items))
NextColor ==
    \/ RunAddColor \/ RunAddVertex \/ RunBeginPolygon \/ RunEndPolygon
    \/ RunAppendPolySet \/ RunBuild
SpecColor == InitColor /\ [][NextColor]_vars

RunAddSurface == Calls("addSurface") /\ AddSurface(Cur.arg) /\ Advance

InitRegistry ==
    \E n \in 1 .. MaxDescriptors : \E l \in [1 .. n -> DescriptorCalls] : InitWith(l)
NextRegistry == RunAddCurve \/ RunAddSurface
SpecRegistry == InitRegistry /\ [][NextRegistry]_vars

RunRegisterApplicationPath ==
    /\ Calls("registerApplicationPath")
    /\ RegisterApplicationPath(Cur.arg.apppath, Cur.arg.found)
    /\ Advance
RunApplicationPath == Calls("applicationPath") /\ ApplicationPath /\ Advance
RunResourceBasePath == Calls("resourceBasePath") /\ ResourceBasePath /\ Advance

\* the calls of a caller of PlatformUtils, each registration with what the
\* file system makes of it
PathCalls ==
    {Call("registerApplicationPath", [apppath |-> p, found |-> f]) :
        p \in ApplicationPaths, f \in LookupOutcomes}
    \cup {Call(op, [apppath |-> "", found |-> ""]) :
            op \in {"applicationPath", "resourceBasePath"}}

InitPlatform ==
    \E n \in 1 .. MaxPathCalls : \E l \in [1 .. n -> PathCalls] : InitWith(l)
NextPlatform == RunRegisterApplicationPath \/ RunApplicationPath \/ RunResourceBasePath
SpecPlatform == InitPlatform /\ [][NextPlatform]_vars

InitGeometry ==
    \E nd \in BOOLEAN, m \in {NoFaces, Mesh(<<"p1", "p2", "p4">>, Triangle, <<"Blue">>, <<0>>)},
       pre \in {<<>>, <<0, 1, 2>>}, geom \in Geometries :
        InitIn(GeometryScript(m, pre, geom), nd)
NextGeometry == RunAppendPolySet \/ RunAddVertex \/ RunAppendGeometry \/ RunBuild
SpecGeometry == InitGeometry /\ [][NextGeometry]_vars

-----------------------------------------------------------------------------
(* What a face script asks for *)

BeginPos == CHOOSE i \in 1 .. Len(input) : input[i].op = "beginPolygon"
EndPos == Len(input) - 1
\* the indices added before beginPolygon, and those of the face itself
PendingArgs == [i \in 1 .. (BeginPos - 2) |-> input[i + 1].arg]
FaceArgs == [i \in 1 .. (EndPos - BeginPos - 1) |-> input[BeginPos + i].arg]

\* an index list with the entries left out that equal the last or the first
\* entry kept so far
RECURSIVE Elided(_)
Elided(s) ==
    IF s = <<>> THEN <<>>
    ELSE LET e == Elided(SubSeq(s, 1, Len(s) - 1))
             x == s[Len(s)]
         IN  IF e # <<>> /\ (x = e[Len(e)] \/ x = e[1]) THEN e ELSE Append(e, x)

Distinct3(a, b, c) == a # b /\ b # c /\ a # c

-----------------------------------------------------------------------------
(* Claims *)

\* C1: whenever the face-colour-index array is not empty, it has one entry
\* per stored face.
C1_ColorIndexLength ==
    color_indices_ # <<>> => Len(color_indices_) = Len(indices_)

\* C4: addVertex(idx) appends idx unless the pending face is non-empty and
\* idx equals its last or first entry: after each addVertex call of the face
\* the pending face is the elided list of the indices added so far, and for
\* pairwise distinct a, b, c the lists [a,a,b,c], [a,b,c,a] and [a,b,c] all
\* store the face [a,b,c].
C4_Elision ==
    /\ (pc >= BeginPos /\ pc < EndPos) =>
           current_polygon_ = Elided(SubSeq(FaceArgs, 1, pc - BeginPos))
    /\ pc = EndPos =>
           \A a \in IndexArgs, b \in IndexArgs, c \in IndexArgs :
               (Distinct3(a, b, c)
                  /\ FaceArgs \in {<<a, a, b, c>>, <<a, b, c, a>>, <<a, b, c>>})
               => (indices_ # <<>> /\ Last(indices_) = <<a, b, c>>)

C4_Witness ==
    /\ pc = EndPos
    /\ FaceArgs = <<0, 1, 2, 0>>
    /\ Last(indices_) = <<0, 1, 2>>

\* C5 as claimed: building a face whose index list has fewer than 3 entries
\* left after elision leaves the stored faces unchanged over the whole
\* sequence, beginPolygon included.
C5_WholeSequenceUnchanged ==
    [][(pc >= BeginPos - 1 /\ pc < EndPos /\ Len(Elided(FaceArgs)) < 3)
          => indices_' = indices_]_vars

\* C5 as amended: beginPolygon first commits a pending face of 3 entries or
\* more; from then on, through endPolygon, the stored faces do not change
\* when the face has fewer than 3 entries left after elision, and the pending
\* face is empty after endPolygon.
C5_DegenerateNotStored ==
    [][(pc >= BeginPos /\ pc < EndPos /\ Len(Elided(FaceArgs)) < 3)
          => /\ indices_' = indices_
             /\ (pc' = EndPos => current_polygon_' = <<>>)]_vars

C5_Witness ==
    /\ pc = EndPos
    /\ FaceArgs = <<0, 1, 0>>
    /\ PendingArgs = <<0, 1, 2>>
    /\ indices_ = <<<<0, 1, 2>>>>
    /\ current_polygon_ = <<>>

\* C10: every stored face has at least 3 entries, no two consecutive entries
\* are equal and the last entry differs from the first.
ValidFace(f) ==
    /\ Len(f) >= 3
    /\ \A i \in 1 .. (Len(f) - 1) : f[i] # f[i + 1]
    /\ f[Len(f)] # f[1]

C10_StoredFaces ==
    /\ \A k \in 1 .. Len(indices_) : ValidFace(indices_[k])
    /\ \A k \in 1 .. Len(polyset.indices) : ValidFace(polyset.indices[k])

C10_Witness ==
    /\ indices_ = <<<<2, 0, 1>>>>
    /\ vertices_ = <<"p1", "p2">>
    /\ current_polygon_ = <<0, 1>>

\* C6: while no face has been stored with a colour the face-colour-index
\* array is empty, and the first endPolygon that stores a face with a valid
\* colour C makes it one sentinel per face stored before, followed by the
\* palette index of C.
C6_ColorBackfill ==
    [][(/\ Calls("endPolygon") /\ pc' = pc + 1
        /\ isValid(Cur.arg)
        /\ Len(current_polygon_) >= 3
        /\ ~anyColored)
          => /\ color_indices_ = <<>>
             /\ color_indices_' =
                    Append(Fill(Len(indices_), -1), Find(colors_', Cur.arg))]_vars

\* C7: the built mesh is flagged all-triangular exactly when none of its
\* faces has more than 3 vertices, wherever the larger face stands: the
\* flag is false exactly when the pending list committed by beginPolygon or
\* the face itself keeps more than 3 entries (a merged source has triangles
\* only).
C7_AllTriangular ==
    polyset.built =>
        /\ polyset.triangular =
               (\A k \in 1 .. Len(polyset.indices) : Len(polyset.indices[k]) <= 3)
        /\ polyset.triangular =
               (Len(Elided(PendingArgs)) <= 3 /\ Len(Elided(FaceArgs)) <= 3)

C7_Witness ==
    /\ polyset.built
    /\ ~polyset.triangular
    /\ Len(polyset.indices) = 3
    /\ Len(polyset.indices[2]) = 4
    /\ Len(polyset.indices[3]) = 3

-----------------------------------------------------------------------------
(* Claims about merges and lookups *)

\* the colours of src that are neither in P nor earlier in src, in src's order
RECURSIVE Novel(_, _)
Novel(src, P) ==
    IF src = <<>> THEN <<>>
    ELSE LET front == SubSeq(src, 1, Len(src) - 1)
             x == src[Len(src)]
         IN  IF x \in Range(P) \cup Range(front) THEN Novel(front, P)
             ELSE Append(Novel(front, P), x)

\* C2: merging a source with face colours into a builder with palette P
\* leaves the palette P followed by the source's colours that are new, in
\* source order and once each; the entry appended for a source entry k >= 0
\* is the position in the builder's palette of the source's colour k, and the
\* entry appended for a source sentinel is the sentinel.
C2_MergeRemap ==
    [][(Calls("appendPolySet") /\ pc' = pc + 1 /\ Cur.arg.color_indices # <<>>)
          => LET ps == Cur.arg
                 n == Len(ps.color_indices)
                 base == Len(color_indices_') - n
             IN  /\ colors_' = colors_ \o Novel(ps.colors, colors_)
                 /\ base >= 0
                 /\ \A j \in 1 .. n :
                        LET k == ps.color_indices[j]
                            e == color_indices_'[base + j]
                        IN  IF k >= 0
                            THEN /\ e \in 0 .. (Len(colors_') - 1)
                                 /\ e = Find(colors_', ps.colors[k + 1])
                            ELSE e = -1]_vars

C2_Witness ==
    /\ pc = 2
    /\ input[1].arg.colors = <<"Blue">> /\ input[1].arg.color_indices = <<0>>
    /\ input[2].arg.colors = <<"Red">> /\ input[2].arg.color_indices = <<0>>
    /\ colors_ = <<"Blue", "Red">>
    /\ color_indices_ = <<0, 1>>

\* the points a call's faces refer to
Referenced(call) ==
    IF call.op = "appendPolygon" THEN Range(call.arg)
    ELSE {call.arg.vertices[ind + 1] :
            ind \in UNION {Range(call.arg.indices[k]) : k \in 1 .. Len(call.arg.indices)}}
\* the call hands over one triangle with three different points
OneTriangle(call) ==
    /\ Cardinality(Referenced(call)) = 3
    /\ call.op = "appendPolySet" => Len(call.arg.indices) = 1

LookupArgs == [i \in 1 .. Len(input) |-> input[i].arg]
FirstPos(p) ==
    CHOOSE i \in 1 .. Len(input) :
        LookupArgs[i] = p /\ \A j \in 1 .. (i - 1) : LookupArgs[j] # p
DistinctBefore(i) == Cardinality({LookupArgs[j] : j \in 1 .. (i - 1)})

\* C3: a lookup returns the number of different points that were looked up
\* before the point's first lookup (the count at that time), the builder
\* holds one point per different point looked up, in the order of their
\* first lookups; so looking a seen point up again changes neither.
C3_VertexDedup ==
    /\ Len(vertices_) = DistinctBefore(pc + 1)
    /\ \A n \in 1 .. Len(vertices_) :
           /\ vertices_[n] \in {LookupArgs[j] : j \in 1 .. pc}
           /\ DistinctBefore(FirstPos(vertices_[n])) = n - 1
    /\ pc >= 1 => ret = DistinctBefore(FirstPos(LookupArgs[pc]))

C3_Witness ==
    /\ pc = 3
    /\ LookupArgs[3] = LookupArgs[1]
    /\ LookupArgs[2] # LookupArgs[1]
    /\ ret = 0
    /\ vertices_ = <<LookupArgs[1], LookupArgs[2]>>

\* a curve with its lower endpoint first
Canonical(c) ==
    [c EXCEPT !.start = IF c.start <= c.end THEN c.start ELSE c.end,
              !.end = IF c.start <= c.end THEN c.end ELSE c.start]

\* C8: every stored curve has start <= end, no curve is stored twice, and
\* adding one curve any number of times in either orientation leaves exactly
\* that curve, lower endpoint first.
C8_CurveDedup ==
    /\ \A i \in 1 .. Len(curves) : curves[i].start <= curves[i].end
    /\ \A i \in 1 .. Len(curves) : \A j \in 1 .. Len(curves) :
           curves[i] = curves[j] => i = j
    /\ (pc >= 1 /\ \A i \in 1 .. pc : Canonical(input[i].arg) = Canonical(input[1].arg))
           => curves = <<Canonical(input[1].arg)>>

C8_Witness ==
    /\ pc = 2
    /\ input[1].arg = [kind |-> "curve", start |-> 5, end |-> 2, r |-> 0]
    /\ input[2].arg = [kind |-> "curve", start |-> 2, end |-> 5, r |-> 0]
    /\ curves = <<[kind |-> "curve", start |-> 2, end |-> 5, r |-> 0]>>

-----------------------------------------------------------------------------
(* Claims about the palette, the colour indices and the pending face *)

\* the call the caller is about to make is op, and the step makes it
Making(op) == Calls(op) /\ pc' = pc + 1

NoRepeat(s) == \A i \in 1 .. Len(s) : \A j \in 1 .. Len(s) : s[i] = s[j] => i = j

\* C11: each colour appears at most once in the palette, of the builder and
\* of the built mesh, after any sequence of endPolygon, appendPolySet and
\* addColor calls.
C11_PaletteUnique == NoRepeat(colors_) /\ NoRepeat(polyset.colors)

\* C14: an endPolygon without a valid colour that commits a face after the
\* face-colour-index array has been started by a coloured face appends
\* exactly one sentinel to that array.
C14_SentinelAppended ==
    [][(/\ Making("endPolygon")
        /\ ~isValid(Cur.arg)
        /\ Len(current_polygon_) >= 3
        /\ anyColored /\ color_indices_ # <<>>)
          => color_indices_' = Append(color_indices_, -1)]_vars

\* the source faces a merge stores, in source order
RECURSIVE KeptFaces(_, _)
KeptFaces(ps, k) ==
    IF k > Len(ps.indices) THEN <<>>
    ELSE IF Kept(ps, k) THEN <<k>> \o KeptFaces(ps, k + 1)
    ELSE KeptFaces(ps, k + 1)

\* the step is a merge after which the colour entry at the position of each
\* face stored from the source denotes the colour (or the sentinel) of the
\* source face it came from, and the entries of the faces stored before the
\* merge are what they were (sentinels, when the array had not been started)
Attributed(ps) ==
    LET kept == KeptFaces(ps, 1)
        first == Len(indices_') - Len(kept)
    IN  /\ \A j \in 1 .. Len(kept) :
               /\ first + j <= Len(color_indices_')
               /\ LET k == ps.color_indices[kept[j]]
                      e == color_indices_'[first + j]
                  IN  IF k < 0 THEN e = -1
                      ELSE /\ e \in 0 .. (Len(colors_') - 1)
                           /\ colors_'[e + 1] = ps.colors[k + 1]
        /\ \A i \in 1 .. Len(indices_) :
               /\ i <= Len(color_indices_')
               /\ IF i <= Len(color_indices_)
                  THEN color_indices_'[i] = color_indices_[i]
                  ELSE color_indices_'[i] = -1

\* C15: the merge of a coloured source preserves the attribution of colours
\* to faces, also when source faces collapse and are dropped and when a face
\* of 3 entries or more is pending at the call.
C15_MergeAttribution ==
    [][(Making("appendPolySet") /\ Cur.arg.color_indices # <<>>)
          => Attributed(Cur.arg)]_vars

\* C16: beginPolygon and build() first act as endPolygon without a colour: a
\* pending face of 3 entries or more becomes a stored face of its own (a face
\* of the built mesh), a shorter one is discarded, and the pending face is
\* empty afterwards; so the face a caller builds after beginPolygon holds the
\* indices added after it only.
C16_PendingFinalized ==
    [][LET after == IF Len(current_polygon_) >= 3
                    THEN Append(indices_, current_polygon_) ELSE indices_
       IN  /\ Making("beginPolygon")
                => indices_' = after /\ current_polygon_' = <<>>
           /\ Making("build")
                => polyset'.indices = after /\ current_polygon_' = <<>>
           /\ Making("endPolygon")
                => indices_' = Append(indices_, <<0, 1, 2>>)]_vars

C16_Witness ==
    /\ polyset.built
    /\ polyset.indices = <<<<2, 1, 0>>, <<0, 1, 2>>, <<2, 1, 0>>>>
    /\ pc = Len(input)

ValidColorIndices(ci, cols) ==
    \A i \in 1 .. Len(ci) : ci[i] = -1 \/ (ci[i] >= 0 /\ ci[i] < Len(cols))
IsPrefix(s, t) == Len(s) <= Len(t) /\ SubSeq(t, 1, Len(s)) = s

\* C18: every face-colour index, of the builder and of the built mesh, is
\* the sentinel -1 or a position of the palette; no call shortens the
\* palette or changes an entry of either array, and build() hands both over
\* as they are.
C18_ColorIndexValid ==
    /\ [](/\ ValidColorIndices(color_indices_, colors_)
          /\ ValidColorIndices(polyset.color_indices, polyset.colors))
    /\ [][IF Making("build")
          THEN polyset'.colors = colors_ /\ polyset'.color_indices = color_indices_
          ELSE IsPrefix(colors_, colors_') /\ IsPrefix(color_indices_, color_indices_')]_vars

C18_Witness ==
    /\ colors_ = <<"Blue", "Red">>
    /\ color_indices_ = <<0, -1, 1>>
    /\ Len(indices_) = 3

-----------------------------------------------------------------------------
(* Claims about appendGeometry *)

FailsConversion(geom) == geom.kind = "CGALNefGeometry" /\ geom.ps = NoMesh

\* the failed conversions a geometry holds, and the geometry without them
RECURSIVE Failures(_)
Failures(geom) ==
    IF FailsConversion(geom) THEN 1
    ELSE IF geom.kind # "GeometryList" \/ geom.children = <<>> THEN 0
    ELSE Failures(Head(geom.children)) + Failures(GList(Tail(geom.children)))

RECURSIVE Removed(_)
Removed(geom) ==
    IF FailsConversion(geom) THEN GList(<<>>)
    ELSE IF geom.kind # "GeometryList" \/ geom.children = <<>> THEN geom
    ELSE LET rest == Removed(GList(Tail(geom.children))).children
             head == Head(geom.children)
         IN  IF FailsConversion(head) THEN GList(rest)
             ELSE GList(<<Removed(head)>> \o rest)

RECURSIVE Unsupported(_)
Unsupported(geom) ==
    IF geom.kind = "GeometryList"
    THEN \E i \in 1 .. Len(geom.children) : Unsupported(geom.children[i])
    ELSE geom.kind \notin {"PolySet", "CGALNefGeometry", "ManifoldGeometry"}

\* C12: appendGeometry of a boundary-representation solid whose conversion
\* returns no mesh logs one error and leaves points, faces, palette, colour
\* indices and pending face as they were; a collection that holds such
\* children (and no unsupported kind) logs one error for each and leaves the
\* builder as appending the collection without them does.
C12_ConversionFailure ==
    [][Making("appendGeometry")
          => /\ FailsConversion(Cur.arg)
                  => /\ UNCHANGED builderVars
                     /\ log' = Append(log, "Nef->PolySet failed")
                     /\ ~aborted'
             /\ (Failures(Cur.arg) > 0 /\ ~Unsupported(Cur.arg))
                  => /\ Len(log') = Len(log) + Failures(Cur.arg)
                     /\ ~aborted'
                     /\ LET st == appendGeometry([b |-> Self, log |-> log,
                                                  aborted |-> FALSE, colored |-> FALSE],
                                                 Removed(Cur.arg), ndebug)
                        IN  /\ Store(st.b)
                            /\ st.log = log]_vars

C12_Witness ==
    /\ pc = Len(input) - 1
    /\ input[pc].op = "appendGeometry"
    /\ input[pc].arg.kind = "GeometryList"
    /\ Len(input[pc].arg.children) = 2
    /\ FailsConversion(input[pc].arg.children[1])
    /\ input[pc].arg.children[2].kind = "PolySet"
    /\ log = <<"Nef->PolySet failed">>
    /\ Len(indices_) = 3
    /\ ~aborted

\* C13: appendGeometry of a geometry kind without a conversion, directly or
\* as a child of a collection, aborts: the call does not return.
C13_UnsupportedAborts ==
    [][(Making("appendGeometry") /\ Unsupported(Cur.arg)) => aborted']_vars

-----------------------------------------------------------------------------
(* Claims about the registries *)

\* two descriptors are the same: under the variant's equality when both are
\* arcs or both are cylinders, under the generic equality otherwise
SameCurve(a, b) ==
    IF a.kind = "arc" /\ b.kind = "arc" THEN ArcCurveEq(a, b) ELSE CurveEq(a, b)
SameSurface(a, b) ==
    IF a.kind = "cylinder" /\ b.kind = "cylinder" THEN CylinderSurfaceEq(a, b)
    ELSE SurfaceEq(a, b)

\* C17: addCurve (of the curve in its canonical orientation) and addSurface
\* leave the registry as it is when a stored descriptor is the same as the
\* new one, and append the new one at the end otherwise; so no two stored
\* descriptors are the same.
C17_RegistryDedup ==
    [][/\ Making("addCurve")
            => LET c == Canonical(Cur.arg)
               IN  /\ curves' = IF \E i \in 1 .. Len(curves) : SameCurve(curves[i], c)
                                THEN curves ELSE Append(curves, c)
                   /\ \A i \in 1 .. Len(curves') : \A j \in 1 .. Len(curves') :
                          SameCurve(curves'[i], curves'[j]) => i = j
       /\ Making("addSurface")
            => LET f == Cur.arg
               IN  /\ surfaces' = IF \E i \in 1 .. Len(surfaces) : SameSurface(surfaces[i], f)
                                  THEN surfaces ELSE Append(surfaces, f)
                   /\ \A i \in 1 .. Len(surfaces') : \A j \in 1 .. Len(surfaces') :
                          SameSurface(surfaces'[i], surfaces'[j]) => i = j]_vars

-----------------------------------------------------------------------------
(* Claims about point-valued callers *)

InRange(face, n) == \A j \in 1 .. Len(face) : face[j] >= 0 /\ face[j] < n

\* C19: when faces are added through points only, every entry of every
\* stored face and of the pending face is an index of a point the builder
\* holds, and every entry of every face of the built mesh is an index into
\* the mesh's vertex array.
C19_IndicesInRange ==
    /\ \A k \in 1 .. Len(indices_) : InRange(indices_[k], Len(vertices_))
    /\ InRange(current_polygon_, Len(vertices_))
    /\ \A k \in 1 .. Len(polyset.indices) :
           InRange(polyset.indices[k], Len(polyset.vertices))

C19_Witness ==
    /\ polyset.built
    /\ polyset.vertices = <<"p2", "p3", "p1">>
    /\ polyset.indices = <<<<2, 1, 0>>>>

-----------------------------------------------------------------------------
(* Claims about PlatformUtils *)

\* C20: applicationPath() and resourceBasePath() throw as long as no
\* registerApplicationPath call has returned; once one has, neither throws
\* and applicationPath() returns the path of the last registration that
\* returned.
C20_PathProtocol ==
    [][/\ Making("applicationPath")
            => IF registered = "" THEN thrown'
               ELSE ~thrown' /\ result' = registered
       /\ Making("resourceBasePath")
            => (thrown' <=> registered = "")]_vars

=============================================================================
